---- MODULE Spec2Model ----
(***************************************************************************)
(* Ticker Tracker (src/ticker_tracker.py): the per-ticker fetch-and-write  *)
(* function scrape_and_ingest_csv, the workbook combiner                   *)
(* combine_csvs_to_excel and the main block that drives a run.             *)
(*                                                                         *)
(* Strings the code takes apart (ticker symbols, file names) are sequences *)
(* of one-character strings; strings it only copies (JSON keys, cell       *)
(* values) are TLA+ strings.  A JSON value is a record [ty, s, items]: ty  *)
(* is its Python type after response.json(), s the text of a str, items    *)
(* the entries [k, v] of a dict (in insertion order) or of a list (k = "").*)
(***************************************************************************)
EXTENDS Integers, Sequences, FiniteSets, TLC

VARIABLES pc, tickers, i, fs, fs0, report, calls, combines, inp

vars == <<pc, tickers, i, fs, fs0, report, calls, combines, inp>>

(* ------------------------------ bounds -------------------------------- *)
MaxTickers == 2
MaxRows == 2
MaxFiles == 2

(* ------------------------- class ErrorCode ---------------------------- *)
SUCCESS == "SUCCESS"
ERROR_HTTP_REQUEST == "ERROR_HTTP_REQUEST"
ERROR_JSON_PARSING == "ERROR_JSON_PARSING"
ERROR_MISSING_FIELDS == "ERROR_MISSING_FIELDS"
ERROR_IO == "ERROR_IO"
ERROR_DIRECTORY == "ERROR_DIRECTORY"
ERROR_UNKNOWN == "ERROR_UNKNOWN"

ErrorCode ==
  {SUCCESS, ERROR_HTTP_REQUEST, ERROR_JSON_PARSING, ERROR_MISSING_FIELDS,
   ERROR_IO, ERROR_DIRECTORY, ERROR_UNKNOWN}

(* What a caller sees in place of a return value when an exception leaves  *)
(* the function, and when a function falls off its end (Python's None).    *)
RAISED == "RAISED"
NONE == "None"

(* ------------------------------ strings ------------------------------- *)
UpperChar(c) ==
  CASE c = "a" -> "A"
    [] c = "b" -> "B"
    [] c = "c" -> "C"
    [] c = "s" -> "S"
    [] c = "v" -> "V"
    [] c = "x" -> "X"
    [] c = "l" -> "L"
    [] OTHER -> c

\* str.upper()
Upper(s) == [k \in DOMAIN s |-> UpperChar(s[k])]

CsvExt == <<".", "c", "s", "v">>

\* f"{t}.csv"; os.path.join(child_dir, .) only prefixes the directory
CsvName(t) == t \o CsvExt

StartsAt(s, p, old) ==
  /\ p + Len(old) - 1 <= Len(s)
  /\ \A k \in 1..Len(old) : s[p + k - 1] = old[k]

RECURSIVE ReplaceFrom(_, _, _)
ReplaceFrom(s, p, old) ==
  IF p > Len(s) THEN <<>>
  ELSE IF StartsAt(s, p, old) THEN ReplaceFrom(s, p + Len(old), old)
  ELSE <<s[p]>> \o ReplaceFrom(s, p + 1, old)

\* os.path.basename(csv_file).replace(".csv", ""): every occurrence goes
SheetName(f) == ReplaceFrom(f, 1, CsvExt)

(* ---------------------------- JSON values ----------------------------- *)
JNull == [ty |-> "null", s |-> "", items |-> <<>>]
JStr(x) == [ty |-> "str", s |-> x, items |-> <<>>]
JList(vs) == [ty |-> "list", s |-> "", items |-> [k \in DOMAIN vs |-> [k |-> "", v |-> vs[k]]]]
JDict(es) == [ty |-> "dict", s |-> "", items |-> es]
E(k, v) == [k |-> k, v |-> v]
EmptyDict == JDict(<<>>)
EmptyList == JList(<<>>)
EmptyStr == JStr("")

\* Python truth value: `if not x`
Truthy(v) ==
  CASE v.ty = "null" -> FALSE
    [] v.ty = "str" -> v.s # ""
    [] OTHER -> v.items # <<>>

\* only a dict has .get / .keys / .values; anything else raises AttributeError
IsDict(v) == v.ty = "dict"

HasKey(d, key) == \E k \in DOMAIN d.items : d.items[k].k = key

\* d.get(key, default)
Get(d, key, default) ==
  IF HasKey(d, key)
  THEN d.items[CHOOSE k \in DOMAIN d.items : d.items[k].k = key].v
  ELSE default

\* what csv.writer puts in a field: the text of a str, nothing for None,
\* str(value) otherwise
Cell(v) ==
  CASE v.ty = "str" -> v.s
    [] v.ty = "null" -> ""
    [] OTHER -> "<obj>"

Reversed(seq) == [k \in 1..Len(seq) |-> seq[Len(seq) + 1 - k]]

Prefix(seq, n) == SubSeq(seq, 1, IF n < Len(seq) THEN n ELSE Len(seq))

(* ---------------------------- file system ----------------------------- *)
\* A directory state: whether child_dir exists, and its entries, each
\* [name, content]; content is [kind, recs, sheets]: a delimited text file
\* holds recs (one sequence of fields per line), a workbook holds sheets,
\* kind "bin" is anything pandas.read_csv cannot decode.
CsvFile(recs) == [kind |-> "csv", recs |-> recs, sheets |-> <<>>]
XlsxFile(sheets) == [kind |-> "xlsx", recs |-> <<>>, sheets |-> sheets]
BinFile == [kind |-> "bin", recs |-> <<>>, sheets |-> <<>>]

Names(files) == {f.name : f \in files}
Exists(d, n) == d.dir /\ n \in Names(d.files)
Content(d, n) == (CHOOSE f \in d.files : f.name = n).content

\* open(path, "w") ... close(): the entry is created or replaced
Store(d, n, c) ==
  [d EXCEPT !.files = {f \in d.files : f.name # n} \cup {[name |-> n, content |-> c]}]

EmptyDir == [dir |-> TRUE, files |-> {}]
NoDir == [dir |-> FALSE, files |-> {}]

(* ------------------------ scrape_and_ingest_csv ----------------------- *)
HTTP_OK == 200

\* What a call hands back: the value returned (or RAISED), the exception
\* class that occurred inside ("none" if none) and the step it occurred at,
\* whether open() had succeeded, and the directory afterwards.
Ret(rc, d) == [rc |-> rc, exc |-> "none", at |-> "none", opened |-> FALSE, fs |-> d]
Raise(exc, at, d) == [rc |-> RAISED, exc |-> exc, at |-> at, opened |-> FALSE, fs |-> d]
Caught(rc, exc, at, d) == [rc |-> rc, exc |-> exc, at |-> at, opened |-> FALSE, fs |-> d]

NoFault == [at |-> "none", exc |-> "IOError", kept |-> 0]

\* list(headers.values())
HeaderRecord(headers) == [k \in DOMAIN headers.items |-> Cell(headers.items[k].v)]

\* variant: [row[key] for key in headers.keys() if key in row]
RowRecordPresentKeysOnly(headers, row) ==
  LET present == SelectSeq(headers.items, LAMBDA e : HasKey(row, e.k))
  IN [k \in DOMAIN present |-> Cell(Get(row, present[k].k, EmptyStr))]

\* [row.get(key, "") for key in headers.keys()]
RowRecord(headers, row) ==
  [k \in DOMAIN headers.items |-> Cell(Get(row, headers.items[k].k, EmptyStr))]

\* the elements `for row in reversed(rows)` visits; a truthy value that is
\* not a list either makes reversed() raise or yields elements with no .get
\* variant: for row in rows
RowOrderAsDelivered(seq) == seq

RowOrder(seq) == Reversed(seq)

RowItems(rows) ==
  IF rows.ty = "list"
  THEN RowOrder([k \in DOMAIN rows.items |-> rows.items[k].v])
  ELSE <<JStr("?")>>

\* how many rows the loop writes before one without .get stops it
GoodRows(items) ==
  CHOOSE n \in 0..Len(items) :
    /\ \A k \in 1..n : IsDict(items[k])
    /\ n = Len(items) \/ ~IsDict(items[n + 1])

\* lines 90-100: the with-open block and its IOError handler
WriteOpen(headers, rows, d, t, fault) ==
  IF fault.at = "open"
  THEN IF fault.exc = "IOError" THEN Caught(ERROR_IO, "IOError", "write", d)
       ELSE Raise(fault.exc, "write", d)
  ELSE
    LET items == RowItems(rows)
        good == GoodRows(items)
        planned == IF ~IsDict(headers) THEN <<>>
                   ELSE <<HeaderRecord(headers)>>
                        \o [k \in 1..good |-> RowRecord(headers, items[k])]
        dataExc == ~IsDict(headers) \/ good < Len(items)
        faultFirst == fault.at = "write" /\ (fault.kept < Len(planned) \/ ~dataExc)
        recs == IF faultFirst THEN Prefix(planned, fault.kept) ELSE planned
        after == Store(d, CsvName(t), CsvFile(recs))
    IN IF faultFirst
       THEN [rc |-> IF fault.exc = "IOError" THEN ERROR_IO ELSE RAISED,
             exc |-> fault.exc, at |-> "write", opened |-> TRUE, fs |-> after]
       ELSE IF dataExc
       THEN [rc |-> RAISED, exc |-> "AttributeError", at |-> "write",
             opened |-> TRUE, fs |-> after]
       ELSE [rc |-> SUCCESS, exc |-> "none", at |-> "none", opened |-> TRUE, fs |-> after]

\* variant: os.makedirs(child_dir, exist_ok=True) in place of the check
WriteCsvMakingDir(headers, rows, d, t, fault) ==
  WriteOpen(headers, rows, [d EXCEPT !.dir = TRUE], t, fault)

\* lines 85-89: the directory check before the file is opened
WriteCsv(headers, rows, d, t, fault) ==
  IF ~d.dir THEN Ret(ERROR_DIRECTORY, d)
  ELSE WriteOpen(headers, rows, d, t, fault)

\* variant: the header record is written before rows is tested
ExtractWritingBeforeRowsCheck(data, d, t, fault) ==
  IF ~IsDict(data) THEN Raise("AttributeError", "extract", d)
  ELSE LET inner == Get(data, "data", EmptyDict) IN
  IF ~IsDict(inner) THEN Raise("AttributeError", "extract", d)
  ELSE LET trades_table == Get(inner, "tradesTable", EmptyDict) IN
  IF ~Truthy(trades_table) THEN Ret(ERROR_MISSING_FIELDS, d)
  ELSE IF ~IsDict(trades_table) THEN Raise("AttributeError", "extract", d)
  ELSE LET headers == Get(trades_table, "headers", EmptyDict)
           rows == Get(trades_table, "rows", EmptyList) IN
  IF ~Truthy(headers) THEN Ret(ERROR_MISSING_FIELDS, d)
  ELSE IF ~Truthy(rows)
  THEN Ret(ERROR_MISSING_FIELDS, WriteCsv(headers, EmptyList, d, t, NoFault).fs)
  ELSE WriteCsv(headers, rows, d, t, fault)

\* lines 71-83: the presence checks on the parsed body
Extract(data, d, t, fault) ==
  IF ~IsDict(data) THEN Raise("AttributeError", "extract", d)
  ELSE LET inner == Get(data, "data", EmptyDict) IN
  IF ~IsDict(inner) THEN Raise("AttributeError", "extract", d)
  ELSE LET trades_table == Get(inner, "tradesTable", EmptyDict) IN
  IF ~Truthy(trades_table) THEN Ret(ERROR_MISSING_FIELDS, d)
  ELSE IF ~IsDict(trades_table) THEN Raise("AttributeError", "extract", d)
  ELSE LET headers == Get(trades_table, "headers", EmptyDict)
           rows == Get(trades_table, "rows", EmptyList) IN
  IF ~Truthy(headers) THEN Ret(ERROR_MISSING_FIELDS, d)
  ELSE IF ~Truthy(rows) THEN Ret(ERROR_MISSING_FIELDS, d)
  ELSE WriteCsv(headers, rows, d, t, fault)

\* lines 53-68: the request, the status check and response.json()
TryBody(resp, d, t, fault) ==
  IF resp.transport # "ok" THEN Caught(ERROR_HTTP_REQUEST, "ConnectionError", "get", d)
  ELSE IF resp.status # HTTP_OK THEN Ret(ERROR_HTTP_REQUEST, d)
  ELSE IF resp.parse = "ValueError" THEN Caught(ERROR_JSON_PARSING, "ValueError", "json", d)
  ELSE IF resp.parse # "ok" THEN Raise(resp.parse, "json", d)
  ELSE Extract(resp.body, d, t, fault)

\* variant: no `except Exception` around the body
ScrapeWithoutGenericHandler(resp, d, t, fault) == TryBody(resp, d, t, fault)

\* lines 47 and 102-105: the generic handler around everything
scrape_and_ingest_csv(resp, d, t, fault) ==
  LET r == TryBody(resp, d, t, fault)
  IN IF r.rc = RAISED THEN [r EXCEPT !.rc = ERROR_UNKNOWN] ELSE r

(* ------------------------ combine_csvs_to_excel ----------------------- *)
\* pd.read_csv(csv_file): "ok" with the DataFrame, or the class of the
\* exception raised.  `unreadable` names the files the operating system
\* refuses to open.
ReadCsv(d, f, unreadable) ==
  LET c == Content(d, f) IN
  IF f \in unreadable THEN [ok |-> FALSE, exc |-> "PermissionError", df |-> <<>>]
  ELSE IF c.kind # "csv" THEN [ok |-> FALSE, exc |-> "UnicodeDecodeError", df |-> <<>>]
  ELSE IF c.recs = <<>> THEN [ok |-> FALSE, exc |-> "EmptyDataError", df |-> <<>>]
  ELSE [ok |-> TRUE, exc |-> "none", df |-> c.recs]

\* lines 118-136 for one file: is it read into a DataFrame?
IsRead(d, f, unreadable) == Exists(d, f) /\ ReadCsv(d, f, unreadable).ok

\* sheets[sheet_name] = df on a dict kept as a sequence of [name, df]: a
\* name already present keeps its place and takes the new value
Put(sheets, name, df) ==
  IF \E k \in DOMAIN sheets : sheets[k].name = name
  THEN [k \in DOMAIN sheets |->
          IF sheets[k].name = name THEN [name |-> name, df |-> df] ELSE sheets[k]]
  ELSE Append(sheets, [name |-> name, df |-> df])

\* lines 113-136: the loop over csv_files
RECURSIVE Collect(_, _, _, _)
Collect(d, csv_files, unreadable, sheets) ==
  IF csv_files = <<>> THEN sheets
  ELSE LET f == Head(csv_files) IN
       IF IsRead(d, f, unreadable)
       THEN Collect(d, Tail(csv_files), unreadable,
                    Put(sheets, SheetName(f), ReadCsv(d, f, unreadable).df))
       ELSE Collect(d, Tail(csv_files), unreadable, sheets)

NoWriteFault == [exc |-> "none", kept |-> 0]

\* lines 143-154.  A PermissionError leaves the path as it was; any other
\* exception inside the with-block still closes the writer, which saves the
\* sheets added so far; both fall off the end of the function.
WriteWorkbook(d, sheets, output_excel, wfault) ==
  IF wfault.exc = "none"
  THEN [rc |-> SUCCESS, sheets |-> sheets,
        fs |-> Store(d, output_excel, XlsxFile(sheets))]
  ELSE IF wfault.exc = "PermissionError"
  THEN [rc |-> NONE, sheets |-> sheets, fs |-> d]
  ELSE [rc |-> NONE, sheets |-> sheets,
        fs |-> Store(d, output_excel, XlsxFile(Prefix(sheets, wfault.kept)))]

\* variant: no `if not sheets` before the workbook is written
CombineWithoutEmptyCheck(d, csv_files, output_excel, env) ==
  WriteWorkbook(d, Collect(d, csv_files, env.unreadable, <<>>), output_excel, env.wfault)

\* lines 113-154: collect, give up if nothing was read, else write
combine_csvs_to_excel(d, csv_files, output_excel, env) ==
  LET sheets == Collect(d, csv_files, env.unreadable, <<>>) IN
  IF sheets = <<>> THEN [rc |-> ERROR_UNKNOWN, sheets |-> sheets, fs |-> d]
  ELSE WriteWorkbook(d, sheets, output_excel, env.wfault)

(* --------------------------- bounded inputs --------------------------- *)
SeqsUpTo(S, n) == UNION {[1..k -> S] : k \in 0..n}

Range(seq) == {seq[k] : k \in DOMAIN seq}

Perms(S) == {p \in [1..Cardinality(S) -> S] : \A a, b \in DOMAIN p : p[a] = p[b] => a = b}

\* the entries of tickers.py, before .upper()
RawTickers == {<<"a">>, <<"A">>, <<"b">>}
TickerLists == SeqsUpTo(RawTickers, MaxTickers)
UpperTickers == {Upper(x) : x \in RawTickers}

\* { data: { tradesTable: { headers: {field: label}, rows: [{field: value}] } } }
H1 == JDict(<<E("date", JStr("Date"))>>)
H2 == JDict(<<E("date", JStr("Date")), E("close", JStr("Close"))>>)
H3 == JDict(<<E("close", JStr("Close")), E("date", JStr("Date"))>>)
HList == JList(<<JStr("Date")>>)
R1 == JDict(<<E("date", JStr("d1")), E("close", JStr("c1"))>>)
R2 == JDict(<<E("date", JStr("d2"))>>)
RNull == JDict(<<E("close", JNull), E("date", JStr("d3"))>>)
RBad == JStr("oops")

HeaderVals == {EmptyDict, H1, H2, H3, HList}
RowKinds == {R1, R2, RNull, RBad}
RowVals == {JList(rs) : rs \in SeqsUpTo(RowKinds, MaxRows)} \cup {JStr("x"), JNull}

Opt(key, vals) == {<<>>} \cup {<<E(key, v)>> : v \in vals}

TableVals ==
  {JDict(h \o r) : h \in Opt("headers", HeaderVals), r \in Opt("rows", RowVals)}
    \cup {JNull, JList(<<JStr("x")>>)}
DataVals == {JDict(tt) : tt \in Opt("tradesTable", TableVals)} \cup {JNull, JStr("x")}
Bodies == {JDict(dd) : dd \in Opt("data", DataVals)} \cup {EmptyList}

Resp(transport, status, parse, body) ==
  [transport |-> transport, status |-> status, parse |-> parse, body |-> body]
RespFail == Resp("fail", 0, "ok", JNull)
Resp404 == Resp("ok", 404, "ok", JNull)
Resp500 == Resp("ok", 500, "ok", JNull)
RespNotJson == Resp("ok", HTTP_OK, "ValueError", JNull)
RespJsonCrash == Resp("ok", HTTP_OK, "RecursionError", JNull)
RespBody(body) == Resp("ok", HTTP_OK, "ok", body)
Table(headers, rows) ==
  JDict(<<E("data", JDict(<<E("tradesTable",
            JDict(<<E("headers", headers), E("rows", rows)>>))>>))>>)

Responses ==
  {RespFail, Resp404, Resp500, RespNotJson, RespJsonCrash}
    \cup {RespBody(b) : b \in Bodies}

Faults ==
  {NoFault}
    \cup {[at |-> "open", exc |-> x, kept |-> 0] : x \in {"IOError", "UnicodeError"}}
    \cup {[at |-> "write", exc |-> x, kept |-> n] :
            x \in {"IOError", "UnicodeError"}, n \in 0..(MaxRows + 1)}

Stale == CsvFile(<<<<"Old">>, <<"o1">>>>)
ScrapeDirs(t) ==
  {NoDir, EmptyDir, Store(EmptyDir, CsvName(t), Stale),
   Store(EmptyDir, CsvName(<<"Z">>), Stale)}

\* a run sees a few of the responses and faults
MainResponses ==
  {RespFail, Resp404, RespNotJson,
   RespBody(JDict(<<E("data", JNull)>>)),
   RespBody(JDict(<<E("data", EmptyDict)>>)),
   RespBody(Table(H1, EmptyList)),
   RespBody(Table(H2, JList(<<R1, R2>>))),
   RespBody(Table(H1, JList(<<RBad>>)))}
MainFaults ==
  {NoFault, [at |-> "open", exc |-> "IOError", kept |-> 0],
   [at |-> "write", exc |-> "IOError", kept |-> 1]}

\* f"{current_date}-combined.xlsx"
OutputExcel == <<"D", ".", "x", "l", "s", "x">>

WriteFaults ==
  {NoWriteFault, [exc |-> "PermissionError", kept |-> 0],
   [exc |-> "InvalidWorksheetName", kept |-> 0],
   [exc |-> "InvalidWorksheetName", kept |-> 1]}

\* file names and directory entries handed to the combiner on its own
ACsv == <<"A", ".", "c", "s", "v">>
BCsv == <<"B", ".", "c", "s", "v">>
ACsvCsv == <<"A", ".", "c", "s", "v", ".", "c", "s", "v">>
NTxt == <<"n", ".", "t", "x", "t">>
FileNames == {ACsv, BCsv, ACsvCsv, NTxt, OutputExcel}
Entries ==
  {[name |-> ACsv, content |-> CsvFile(<<<<"Date">>, <<"a1">>>>)],
   [name |-> ACsv, content |-> CsvFile(<<>>)],
   [name |-> BCsv, content |-> CsvFile(<<<<"Date">>, <<"b1">>>>)],
   [name |-> ACsvCsv, content |-> CsvFile(<<<<"Date">>, <<"aa1">>>>)],
   [name |-> NTxt, content |-> CsvFile(<<<<"note">>>>)],
   [name |-> OutputExcel, content |-> BinFile]}
CombineDirs ==
  {[dir |-> TRUE, files |-> F] : F \in
     {G \in SUBSET Entries :
        /\ Cardinality(G) <= MaxFiles
        /\ \A x, y \in G : x.name = y.name => x = y}}
CombineEnvs ==
  {[unreadable |-> u, wfault |-> w] :
     u \in {{}} \cup {{n} : n \in FileNames}, w \in WriteFaults}
CombineLists == SeqsUpTo(FileNames, MaxFiles)

(* ------------------------------- a run -------------------------------- *)
\* lines 161-173: the output root and the run directory exist, the latter
\* newly named by the current second
Init ==
  /\ pc = "loop"
  /\ tickers \in TickerLists
  /\ i = 1
  /\ fs = EmptyDir
  /\ fs0 = EmptyDir
  /\ report = <<>>
  /\ calls = <<>>
  /\ combines = <<>>
  /\ inp = <<>>

CallEntry(t, r) == [t |-> t, rc |-> r.rc, exc |-> r.exc, at |-> r.at, opened |-> r.opened]

\* the ticker the loop of line 176 hands to the k-th iteration
LoopTicker(list, k) == Upper(list[k])

\* variant: the loop breaks at the first result code other than SUCCESS
NextIndexStoppingOnError(k, rc) == IF rc = SUCCESS THEN k + 1 ELSE Len(tickers) + 1

\* where the loop goes after an iteration that returned rc
NextIndex(k, rc) == k + 1

\* lines 176-179: one iteration of the loop
Iterate ==
  /\ pc = "loop"
  /\ i <= Len(tickers)
  /\ \E resp \in MainResponses, fault \in MainFaults :
       LET t == LoopTicker(tickers, i)
           r == scrape_and_ingest_csv(resp, fs, t, fault)
       IN /\ fs' = r.fs
          /\ calls' = Append(calls, CallEntry(t, r))
          /\ report' = Append(report, [t |-> t, rc |-> r.rc])
          /\ i' = NextIndex(i, r.rc)
  /\ UNCHANGED <<pc, tickers, fs0, combines, inp>>

\* lines 181-184: list the run directory and combine
Combine ==
  /\ pc = "loop"
  /\ i > Len(tickers)
  /\ \E csv_files \in Perms(Names(fs.files)), w \in WriteFaults :
       LET r == combine_csvs_to_excel(fs, csv_files, OutputExcel,
                                   [unreadable |-> {}, wfault |-> w])
       IN /\ fs' = r.fs
          /\ combines' = Append(combines,
               [csv_files |-> csv_files, rc |-> r.rc, sheets |-> r.sheets,
                after |-> Len(calls), before |-> fs])
  /\ pc' = "done"
  /\ UNCHANGED <<tickers, i, fs0, report, calls, inp>>

Next == Iterate \/ Combine

Spec == Init /\ [][Next]_vars

(* ------------------- scrape_and_ingest_csv on its own ----------------- *)
InitScrape ==
  /\ pc = "scrape"
  /\ inp \in [resp : Responses, t : UpperTickers, fault : Faults]
  /\ fs \in ScrapeDirs(inp.t)
  /\ fs0 = fs
  /\ tickers = <<>>
  /\ i = 1
  /\ report = <<>>
  /\ calls = <<>>
  /\ combines = <<>>

ScrapeCall ==
  /\ pc = "scrape"
  /\ LET r == scrape_and_ingest_csv(inp.resp, fs, inp.t, inp.fault)
     IN /\ fs' = r.fs
        /\ calls' = Append(calls, CallEntry(inp.t, r))
  /\ pc' = "returned"
  /\ UNCHANGED <<tickers, i, fs0, report, combines, inp>>

SpecScrape == InitScrape /\ [][ScrapeCall]_vars

(* ------------------- combine_csvs_to_excel on its own ----------------- *)
InitCombine ==
  /\ pc = "combine"
  /\ fs \in CombineDirs
  /\ fs0 = fs
  /\ inp \in [csv_files : CombineLists, env : CombineEnvs]
  /\ tickers = <<>>
  /\ i = 1
  /\ report = <<>>
  /\ calls = <<>>
  /\ combines = <<>>

CombineCall ==
  /\ pc = "combine"
  /\ LET r == combine_csvs_to_excel(fs, inp.csv_files, OutputExcel, inp.env)
     IN /\ fs' = r.fs
        /\ combines' = Append(combines,
             [csv_files |-> inp.csv_files, rc |-> r.rc, sheets |-> r.sheets,
              after |-> 0, before |-> fs])
  /\ pc' = "returned"
  /\ UNCHANGED <<tickers, i, fs0, report, calls, inp>>

SpecCombine == InitCombine /\ [][CombineCall]_vars

(* ====================================================================== *)
(* Properties of scrape_and_ingest_csv (checked under SpecScrape)         *)
(* ====================================================================== *)
Returned == pc = "returned" /\ Len(calls) = 1
TheCall == calls[1]

\* the call went past every check of the fetch and entered the write step
ReachedWrite(c) == c.rc = ERROR_DIRECTORY \/ c.opened \/ c.at = "write"

\* The value found by walking body -> 'data' -> 'tradesTable', as a reader
\* of the response sees it: JNull stands for "no such section".
SectionOf(body) ==
  IF IsDict(body) /\ HasKey(body, "data") /\ IsDict(Get(body, "data", JNull))
  THEN Get(Get(body, "data", JNull), "tradesTable", JNull)
  ELSE JNull
HeadersOf(body) ==
  IF IsDict(SectionOf(body)) THEN Get(SectionOf(body), "headers", JNull) ELSE JNull
RowsOf(body) ==
  IF IsDict(SectionOf(body)) THEN Get(SectionOf(body), "rows", JNull) ELSE JNull
RowList(body) == [k \in DOMAIN RowsOf(body).items |-> RowsOf(body).items[k].v]

\* the outcome the priority list of the fetcher assigns to a response
Classified(resp) ==
  IF resp.transport # "ok" THEN ERROR_HTTP_REQUEST
  ELSE IF resp.status # HTTP_OK THEN ERROR_HTTP_REQUEST
  ELSE IF resp.parse # "ok" THEN ERROR_JSON_PARSING
  ELSE IF ~Truthy(SectionOf(resp.body)) THEN ERROR_MISSING_FIELDS
  ELSE IF ~Truthy(HeadersOf(resp.body)) THEN ERROR_MISSING_FIELDS
  ELSE IF ~Truthy(RowsOf(resp.body)) THEN ERROR_MISSING_FIELDS
  ELSE "write"

\* C2: every fetch outcome is classified by the first matching rule of the
\* list: transport failure and non-200 status give ERROR_HTTP_REQUEST, a body
\* that is not JSON gives ERROR_JSON_PARSING, an absent or empty tradesTable
\* section, empty headers and empty rows give ERROR_MISSING_FIELDS, and
\* anything else reaches the write step; for every body shape.
C2_ClassifiedInOrder ==
  (Returned /\ inp.resp.parse \in {"ok", "ValueError"} /\ IsDict(inp.resp.body)) =>
     IF Classified(inp.resp) = "write"
     THEN ReachedWrite(TheCall)
     ELSE TheCall.rc = Classified(inp.resp) /\ ~ReachedWrite(TheCall)

\* exceptions one of the specific handlers of the function is written for
Anticipated(c) ==
  \/ c.at = "get"
  \/ c.at = "json" /\ c.exc = "ValueError"
  \/ c.at = "write" /\ c.exc = "IOError"

\* C3: whatever the transport outcome, the body, the directory and the
\* file-system faults, the call returns one of the seven ErrorCode values
\* (no exception reaches the caller), and an exception no specific handler
\* anticipates is reported as ERROR_UNKNOWN.
C3_AlwaysReturnsCode ==
  Returned =>
    /\ TheCall.rc \in ErrorCode
    /\ (TheCall.exc # "none" /\ ~Anticipated(TheCall)) => TheCall.rc = ERROR_UNKNOWN

C3_Witness ==
  /\ Returned
  /\ TheCall.exc = "AttributeError"
  /\ TheCall.rc = ERROR_UNKNOWN
  /\ inp.fault.at = "none"

\* C5: after SUCCESS on a response with N rows, T.csv holds the header
\* record and then exactly N data records, the i-th of which is the record
\* of row N+1-i of the response.
C5_ReversedRows ==
  (Returned /\ TheCall.rc = SUCCESS) =>
    LET rows == RowList(inp.resp.body)
        N == Len(rows)
        recs == Content(fs, CsvName(inp.t)).recs
    IN /\ Exists(fs, CsvName(inp.t))
       /\ Len(recs) = N + 1
       /\ recs[1] = HeaderRecord(HeadersOf(inp.resp.body))
       /\ \A k \in 1..N : recs[k + 1] = RowRecord(HeadersOf(inp.resp.body), rows[N + 1 - k])

C5_Witness ==
  /\ Returned
  /\ TheCall.rc = SUCCESS
  /\ Len(RowList(inp.resp.body)) >= 2
  /\ RowList(inp.resp.body)[1] # RowList(inp.resp.body)[2]
  /\ Content(fs, CsvName(inp.t)).recs[2] # Content(fs, CsvName(inp.t)).recs[3]

\* a response whose headers are a mapping and whose rows are a non-empty
\* list of mappings, written to an existing directory with no fault
Persistable ==
  /\ inp.resp.transport = "ok" /\ inp.resp.status = HTTP_OK /\ inp.resp.parse = "ok"
  /\ IsDict(HeadersOf(inp.resp.body)) /\ Truthy(HeadersOf(inp.resp.body))
  /\ RowsOf(inp.resp.body).ty = "list" /\ Truthy(RowsOf(inp.resp.body))
  /\ \A k \in DOMAIN RowList(inp.resp.body) : IsDict(RowList(inp.resp.body)[k])
  /\ fs0.dir
  /\ inp.fault.at = "none"

\* the field of `row` under the j-th header key, as the output must show it
FieldOf(headers, row, j) ==
  IF HasKey(row, headers.items[j].k) THEN Cell(Get(row, headers.items[j].k, JNull)) ELSE ""

\* C6: when a response is persisted the call succeeds, every row gives one
\* output record with one field per header key in header-key order, and a
\* header key absent from the row gives an empty-string field there; no row
\* is skipped.
C6_MissingKeyIsEmptyField ==
  (Returned /\ Persistable) =>
    LET headers == HeadersOf(inp.resp.body)
        rows == RowList(inp.resp.body)
        recs == Content(fs, CsvName(inp.t)).recs
    IN /\ TheCall.rc = SUCCESS
       /\ Len(recs) = Len(rows) + 1
       /\ \A k \in 2..Len(recs) : Len(recs[k]) = Len(headers.items)
       /\ \A r \in DOMAIN rows : \E k \in 2..Len(recs) :
            \A j \in DOMAIN headers.items : recs[k][j] = FieldOf(headers, rows[r], j)

C6_Witness ==
  /\ Returned /\ Persistable
  /\ TheCall.rc = SUCCESS
  /\ \E r \in DOMAIN RowList(inp.resp.body) :
       /\ ~HasKey(RowList(inp.resp.body)[r], "close")
       /\ HasKey(HeadersOf(inp.resp.body), "close")
       /\ \E k \in 2..Len(Content(fs, CsvName(inp.t)).recs) :
            \E j \in 1..2 : Content(fs, CsvName(inp.t)).recs[k][j] = ""

\* C9: a series that was fetched successfully, with the target directory
\* missing at the moment of writing, gives ERROR_DIRECTORY and leaves the
\* file system as it was: no directory, no file.
C9_MissingDirectory ==
  (Returned /\ Classified(inp.resp) = "write" /\ ~fs0.dir) =>
    /\ TheCall.rc = ERROR_DIRECTORY
    /\ fs = fs0

C9_Witness ==
  /\ Returned
  /\ Classified(inp.resp) = "write"
  /\ ~fs0.dir
  /\ TheCall.rc = ERROR_DIRECTORY
  /\ ~fs.dir /\ fs.files = {}

(* ====================================================================== *)
(* Properties of combine_csvs_to_excel (checked under SpecCombine)        *)
(* ====================================================================== *)
CombineReturned == pc = "returned" /\ Len(combines) = 1

\* the files of the list that exist and that read_csv turns into a DataFrame
ReadFiles == {f \in Range(inp.csv_files) : IsRead(fs0, f, inp.env.unreadable)}

\* a file name without its .csv extension
StripExt(f) ==
  IF Len(f) >= Len(CsvExt) /\ SubSeq(f, Len(f) - Len(CsvExt) + 1, Len(f)) = CsvExt
  THEN SubSeq(f, 1, Len(f) - Len(CsvExt))
  ELSE f

WorkbookSheets(d) ==
  IF Exists(d, OutputExcel) /\ Content(d, OutputExcel).kind = "xlsx"
  THEN Content(d, OutputExcel).sheets
  ELSE <<>>

\* C7: files that are missing or cannot be read are skipped and the rest go
\* on; if at least one file was read (and the final write meets no fault) the
\* workbook holds exactly one sheet per file read, each named by the file
\* name with its .csv extension stripped.
C7_OneSheetPerReadFile ==
  (CombineReturned /\ ReadFiles # {} /\ inp.env.wfault.exc = "none") =>
    /\ Exists(fs, OutputExcel)
    /\ Content(fs, OutputExcel).kind = "xlsx"
    /\ Len(WorkbookSheets(fs)) = Cardinality(ReadFiles)
    /\ {WorkbookSheets(fs)[k].name : k \in DOMAIN WorkbookSheets(fs)}
         = {StripExt(f) : f \in ReadFiles}

\* C8: when no file of the list is read (empty list, or every file missing
\* or unreadable) the output path is left as it was, no workbook is created,
\* and the function returns ERROR_UNKNOWN.
C8_NothingReadNoWorkbook ==
  (CombineReturned /\ ReadFiles = {}) =>
    /\ combines[1].rc = ERROR_UNKNOWN
    /\ fs = fs0
    /\ WorkbookSheets(fs) = <<>>

C8_Witness ==
  /\ CombineReturned
  /\ ReadFiles = {}
  /\ \E f \in Range(inp.csv_files) : Exists(fs0, f)
  /\ \E f \in Range(inp.csv_files) : ~Exists(fs0, f)
  /\ inp.env.wfault.exc = "none"
  /\ combines[1].rc = ERROR_UNKNOWN
  /\ ~Exists(fs, OutputExcel)

(* ====================================================================== *)
(* Properties of a run (checked under Spec)                               *)
(* ====================================================================== *)
FetchFailCodes == {ERROR_HTTP_REQUEST, ERROR_JSON_PARSING, ERROR_MISSING_FIELDS}

CallsFor(T) == {k \in DOMAIN calls : calls[k].t = T}

\* T was attempted and every fetch for it failed
FetchFailed(T) ==
  /\ CallsFor(T) # {}
  /\ \A k \in CallsFor(T) : calls[k].rc \in FetchFailCodes

SheetNames(d) == {WorkbookSheets(d)[k].name : k \in DOMAIN WorkbookSheets(d)}

C1_NoFileNoSheet ==
  \A T \in UpperTickers : FetchFailed(T) =>
    /\ ~Exists(fs, CsvName(T))
    /\ pc = "done" =>
         /\ CsvName(T) \notin Range(combines[1].csv_files)
         /\ ~Exists(combines[1].before, CsvName(T))
         /\ T \notin SheetNames(fs)

C1_FailureTouchesNothing ==
  (Len(calls') = Len(calls) + 1 /\ calls'[Len(calls')].rc \in FetchFailCodes) =>
    /\ fs' = fs
    /\ SubSeq(report', 1, Len(report)) = report
    /\ SubSeq(calls', 1, Len(calls)) = calls

\* C1: a ticker whose fetch fails (connection, status, unparseable body,
\* missing or empty table, headers or rows) has no file T.csv in the run
\* directory when the combiner is invoked and no sheet T in the workbook, and
\* the failing attempt changes neither the files nor the report lines of the
\* other tickers.
C1_FailedFetchLeavesNothing == [](C1_NoFileNoSheet) /\ [][C1_FailureTouchesNothing]_vars

C1_Witness ==
  /\ pc = "done"
  /\ Len(calls) = 2
  /\ calls[1].t # calls[2].t
  /\ calls[1].rc = SUCCESS
  /\ calls[2].rc = ERROR_HTTP_REQUEST
  /\ FetchFailed(calls[2].t)
  /\ SheetNames(fs) = {calls[1].t}
  /\ Names(fs.files) = {CsvName(calls[1].t), OutputExcel}

\* C4: every entry of the list is attempted exactly once, upper-cased and in
\* list order, and gets exactly one report line with its result code; the
\* combiner runs exactly once, after the last ticker; no result code stops
\* the loop or the combine step.
C4_EachTickerOnceThenCombine ==
  /\ Len(calls) = i - 1
  /\ Len(calls) <= Len(tickers)
  /\ \A k \in DOMAIN calls : calls[k].t = Upper(tickers[k])
  /\ report = [k \in DOMAIN calls |-> [t |-> calls[k].t, rc |-> calls[k].rc]]
  /\ Len(combines) = (IF pc = "done" THEN 1 ELSE 0)
  /\ pc = "done" => (Len(calls) = Len(tickers) /\ combines[1].after = Len(tickers))
  /\ pc # "done" => ENABLED Next

C4_Witness ==
  /\ pc = "done"
  /\ Len(tickers) = 2
  /\ tickers[1] # Upper(tickers[1])
  /\ calls[1].rc = ERROR_UNKNOWN
  /\ calls[2].rc = SUCCESS
  /\ Len(report) = 2

OpenedCodes == {SUCCESS, ERROR_IO, ERROR_UNKNOWN}

====
